---- MODULE Spec2Model ----
(***************************************************************************)
(* The data-access layer of BrogApp (src/db/queries.rs): create and delete *)
(* for users, posts and comments over a MySQL store reached through Diesel. *)
(* A create is two statements on the caller's connection, an INSERT and    *)
(* then a SELECT of the row with the largest id; a delete is one statement.*)
(* Each connection runs one call at a time; the statements of different    *)
(* connections interleave.                                                 *)
(***************************************************************************)
EXTENDS Integers, FiniteSets, Sequences, TLC

\* Number of ids the auto-increment counter of a table hands out before it
\* is exhausted (the Integer column's range, scaled down).
MaxId == 2

\* The connections (one caller each).
Conns == {"c1", "c2"}

\* Argument values the callers draw from.
Names == {"alice"}
Emails == {"a@x.com"}
Hashes == {"h1"}
Titles == {"hi"}
Bodies == {"body"}
Published == {TRUE}
CommentBodies == {"hello"}
IdArgs == 1..MaxId

Tables == {"users", "posts", "comments"}
Creates == {"create_user", "create_post", "create_comment"}
Deletes == {"delete_user", "delete_post", "delete_comment"}

VARIABLES
    users,      \* rows of table users
    posts,      \* rows of table posts
    comments,   \* rows of table comments
    autoInc,    \* per table, the next id the store will assign
    pc,         \* per connection: "idle", or "fetch" (insert done, select not yet)
    call,       \* per connection, the create call in progress
    last,       \* the statement executed last and what it gave its caller
    delta,      \* history: the tables whose rows the last statement changed
    assigned,   \* history: per table, the ids the store assigned, in order
    raced,      \* history: tables on which a create returned another caller's row
    rt          \* history: the round trip in progress (single-connection runs)

vars == <<users, posts, comments, autoInc, pc, call, last, delta, assigned,
          raced, rt>>

None == [op |-> "none", kind |-> "none"]
RtOff == [phase |-> "off"]

----------------------------------------------------------------------------
(* The store *)

UserIds == {r.user_id : r \in users}
PostIds == {r.post_id : r \in posts}
CommentIds == {r.comment_id : r \in comments}

IdsOf(t) ==
    CASE t = "users" -> UserIds
      [] t = "posts" -> PostIds
      [] t = "comments" -> CommentIds

Max(S) == CHOOSE x \in S : \A y \in S : y <= x
Min(S) == CHOOSE x \in S : \A y \in S : x <= y

\* A store that gives out the largest id in the table plus one, and so
\* reuses the id of a deleted last row.
NextIdReuse(t) == IF IdsOf(t) = {} THEN 1 ELSE Max(IdsOf(t)) + 1

\* AUTO_INCREMENT: the id the next insert into table t gets. The counter
\* only counts up; a delete does not give an id back.
NextId(t) == autoInc[t]

\* The counter is exhausted once the column's range is used up; the insert
\* then fails.
Exhausted(t) == autoInc[t] > MaxId

\* The declared foreign keys: a child row is accepted only if the rows it
\* names exist.
PostFkOk(new_post) == new_post.user_id \in UserIds
CommentFkOk(new_comment) ==
    /\ new_comment.post_id \in PostIds
    /\ new_comment.user_id \in UserIds

\* A store that lets a referenced user go.
UserReferencedNever(user_id) == FALSE

\* A parent row that a child row references cannot be deleted.
UserReferenced(user_id) ==
    \/ \E p \in posts : p.user_id = user_id
    \/ \E k \in comments : k.user_id = user_id
PostReferenced(post_id) == \E k \in comments : k.post_id = post_id

\* order(id.asc()) in place of order(id.desc()).
FirstUserAsc == CHOOSE r \in users : r.user_id = Min(UserIds)
FirstCommentAsc == CHOOSE r \in comments : r.comment_id = Min(CommentIds)

\* table.order(id.desc()).first(conn): the row with the largest id.
FirstUserDesc == CHOOSE r \in users : r.user_id = Max(UserIds)
FirstPostDesc == CHOOSE r \in posts : r.post_id = Max(PostIds)
FirstCommentDesc == CHOOSE r \in comments : r.comment_id = Max(CommentIds)

\* find(id + 1) in place of find(id).
FindUserNext(user_id) == {r \in users : r.user_id = user_id + 1}
\* filter(id.le(..)) in place of find(id).
FindCommentUpTo(id) == {r \in comments : r.comment_id <= id}

\* table.find(id): the rows whose primary key is id.
FindUser(user_id) == {r \in users : r.user_id = user_id}
FindPost(post_id) == {r \in posts : r.post_id = post_id}
FindComment(id) == {r \in comments : r.comment_id = id}

----------------------------------------------------------------------------
(* Bookkeeping shared by the statements *)

TableOf(op) ==
    CASE op \in {"create_user", "delete_user"} -> "users"
      [] op \in {"create_post", "delete_post"} -> "posts"
      [] op \in {"create_comment", "delete_comment"} -> "comments"
      [] OTHER -> "none"

\* A write of connection c to table t: every other connection that is
\* between its insert into t and its select has been interleaved with.
MarkDirty(c, t) ==
    [d \in Conns |->
        IF d # c /\ pc[d] = "fetch" /\ TableOf(call[d].op) = t
        THEN [call[d] EXCEPT !.dirty = TRUE]
        ELSE call[d]]

\* The select of connection c returns the row id of table t: the call that
\* inserted it, if still in progress, has had its row returned.
MarkSeen(c, t, id) ==
    [d \in Conns |->
        IF d # c /\ pc[d] = "fetch" /\ TableOf(call[d].op) = t /\ call[d].id = id
        THEN [call[d] EXCEPT !.seen = TRUE]
        ELSE call[d]]

\* The call in progress after a successful insert: the insert-model the
\* function still holds, the id the store gave the row (the function never
\* learns it), whether another connection wrote to the table since, and
\* whether some create call has returned the row.
Pending(op, new, id) == [op |-> op, kind |-> "pending", new |-> new, id |-> id,
                         dirty |-> FALSE, seen |-> FALSE]

\* How the id a delete is given relates to the statement executed just
\* before it: the id that create just returned, the id that delete just
\* removed, or neither.
Prev(op_create, op_delete, id) ==
    IF last.op = op_create /\ last.kind = "Ok" /\ last.id = id
    THEN "created"
    ELSE IF last.op = op_delete /\ last.kind = "Ok" /\ last.id = id
            /\ last.count = 1
         THEN "deleted"
         ELSE "other"

\* What a statement gave its caller.
InsertErr(c, op, new, err) ==
    [conn |-> c, op |-> op, stage |-> "insert", kind |-> "Err", err |-> err,
     new |-> new]
Inserted(c, op) ==
    [conn |-> c, op |-> op, stage |-> "insert", kind |-> "Inserted"]
FetchErr(c, how, err) ==
    [conn |-> c, op |-> call[c].op, stage |-> "fetch", kind |-> how,
     err |-> err, new |-> call[c].new, own |-> call[c].id,
     dirty |-> call[c].dirty, seen |-> call[c].seen]
FetchOk(c, row, id) ==
    [conn |-> c, op |-> call[c].op, stage |-> "fetch", kind |-> "Ok",
     got |-> row, id |-> id, new |-> call[c].new, own |-> call[c].id,
     dirty |-> call[c].dirty]
\* A delete that treats "no row" as an error.
DeleteOkStrict(c, op, id, affected_rows, prev) ==
    IF affected_rows = 0
    THEN [conn |-> c, op |-> op, kind |-> "Err", err |-> "NotFound",
          id |-> id, prev |-> prev, present |-> id \in IdsOf(TableOf(op))]
    ELSE [conn |-> c, op |-> op, kind |-> "Ok", id |-> id,
          count |-> affected_rows, prev |-> prev,
          present |-> id \in IdsOf(TableOf(op))]

\* Ok(affected_rows), also when affected_rows is 0.
DeleteOk(c, op, id, affected_rows, prev) ==
    [conn |-> c, op |-> op, kind |-> "Ok", id |-> id, count |-> affected_rows,
     prev |-> prev, present |-> id \in IdsOf(TableOf(op))]
DeleteErr(c, op, id, prev) ==
    [conn |-> c, op |-> op, kind |-> "Err", err |-> "ForeignKeyViolation",
     id |-> id, prev |-> prev, present |-> id \in IdsOf(TableOf(op))]

\* execute(conn) with its result dropped: the function goes on to the select.
InsertIgnored(c, op, new, err) ==
    /\ last' = InsertErr(c, op, new, err)
    /\ pc' = [pc EXCEPT ![c] = "fetch"]
    /\ call' = [call EXCEPT ![c] = Pending(op, new, 0)]

\* execute(conn)? on an error: the function returns the error at once.
InsertFailed(c, op, new, err) ==
    /\ last' = InsertErr(c, op, new, err)
    /\ UNCHANGED <<pc, call>>

Init ==
    /\ users = {}
    /\ posts = {}
    /\ comments = {}
    /\ autoInc = [t \in Tables |-> 1]
    /\ pc = [c \in Conns |-> "idle"]
    /\ call = [c \in Conns |-> None]
    /\ last = None
    /\ delta = {}
    /\ assigned = [t \in Tables |-> <<>>]
    /\ raced = {}
    /\ rt = RtOff

----------------------------------------------------------------------------
(* create_user *)

create_user_insert(c, name, email, password_hash) ==
    /\ pc[c] = "idle"
    /\ LET new_user ==
                [name |-> name,
                 email |-> email,
                 password_hash |-> password_hash]
           row == [user_id |-> NextId("users"),
                   name |-> new_user.name,
                   email |-> new_user.email,
                   password_hash |-> new_user.password_hash]
       IN  IF Exhausted("users")
           THEN /\ InsertFailed(c, "create_user", new_user,
                                "DatabaseError")
                /\ UNCHANGED <<users, autoInc>>
           ELSE /\ users' = users \cup {row}
                /\ autoInc' = [autoInc EXCEPT !["users"] = @ + 1]
                /\ pc' = [pc EXCEPT ![c] = "fetch"]
                /\ call' = [MarkDirty(c, "users") EXCEPT ![c] =
                                Pending("create_user", new_user, row.user_id)]
                /\ last' = Inserted(c, "create_user")
    /\ UNCHANGED <<posts, comments>>

create_user_fetch(c) ==
    /\ pc[c] = "fetch"
    /\ call[c].op = "create_user"
    /\ pc' = [pc EXCEPT ![c] = "idle"]
    /\ call' = IF users = {}
               THEN [call EXCEPT ![c] = None]
               ELSE [MarkSeen(c, "users", FirstUserDesc.user_id) EXCEPT ![c] = None]
    /\ last' = IF users = {}
               THEN FetchErr(c, "Err", "NotFound")
               ELSE FetchOk(c, FirstUserDesc, FirstUserDesc.user_id)
    /\ UNCHANGED <<users, posts, comments, autoInc>>

----------------------------------------------------------------------------
(* delete_user *)

delete_user(c, user_id) ==
    /\ pc[c] = "idle"
    /\ LET prev == Prev("create_user", "delete_user", user_id)
           found == FindUser(user_id)
           affected_rows == Cardinality(found)
       IN  IF UserReferenced(user_id)
           THEN /\ last' = DeleteErr(c, "delete_user", user_id, prev)
                /\ UNCHANGED <<users, call>>
           ELSE /\ users' = users \ found
                /\ call' = IF found = {} THEN call ELSE MarkDirty(c, "users")
                /\ last' = DeleteOk(c, "delete_user", user_id, affected_rows, prev)
    /\ UNCHANGED <<posts, comments, autoInc, pc>>

----------------------------------------------------------------------------
(* create_post *)

create_post_insert(c, title, body, is_published, user_id) ==
    /\ pc[c] = "idle"
    /\ LET new_post ==
                [title |-> title,
                 post_body |-> body,
                 published |-> is_published,
                 user_id |-> user_id]
           row == [post_id |-> NextId("posts"),
                   title |-> new_post.title,
                   post_body |-> new_post.post_body,
                   published |-> new_post.published,
                   user_id |-> new_post.user_id]
       IN  IF ~PostFkOk(new_post) \/ Exhausted("posts")
           THEN /\ InsertFailed(c, "create_post", new_post,
                                IF ~PostFkOk(new_post) THEN "ForeignKeyViolation"
                                ELSE "DatabaseError")
                /\ UNCHANGED <<posts, autoInc>>
           ELSE /\ posts' = posts \cup {row}
                /\ autoInc' = [autoInc EXCEPT !["posts"] = @ + 1]
                /\ pc' = [pc EXCEPT ![c] = "fetch"]
                /\ call' = [MarkDirty(c, "posts") EXCEPT ![c] =
                                Pending("create_post", new_post, row.post_id)]
                /\ last' = Inserted(c, "create_post")
    /\ UNCHANGED <<users, comments>>

create_post_fetch(c) ==
    /\ pc[c] = "fetch"
    /\ call[c].op = "create_post"
    /\ pc' = [pc EXCEPT ![c] = "idle"]
    /\ call' = IF posts = {}
               THEN [call EXCEPT ![c] = None]
               ELSE [MarkSeen(c, "posts", FirstPostDesc.post_id) EXCEPT ![c] = None]
    /\ last' = IF posts = {}
               THEN FetchErr(c, "Err", "NotFound")
               ELSE FetchOk(c, FirstPostDesc, FirstPostDesc.post_id)
    /\ UNCHANGED <<users, posts, comments, autoInc>>

----------------------------------------------------------------------------
(* delete_post *)

delete_post(c, post_id) ==
    /\ pc[c] = "idle"
    /\ LET prev == Prev("create_post", "delete_post", post_id)
           found == FindPost(post_id)
           affected_rows == Cardinality(found)
       IN  IF PostReferenced(post_id)
           THEN /\ last' = DeleteErr(c, "delete_post", post_id, prev)
                /\ UNCHANGED <<posts, call>>
           ELSE /\ posts' = posts \ found
                /\ call' = IF found = {} THEN call ELSE MarkDirty(c, "posts")
                /\ last' = DeleteOk(c, "delete_post", post_id, affected_rows, prev)
    /\ UNCHANGED <<users, comments, autoInc, pc>>

----------------------------------------------------------------------------
(* create_comment *)

create_comment_insert(c, user_id, post_id, body) ==
    /\ pc[c] = "idle"
    /\ LET new_comment ==
                [user_id |-> user_id,
                 post_id |-> post_id,
                 comment_body |-> body]
           row == [comment_id |-> NextId("comments"),
                   post_id |-> new_comment.post_id,
                   user_id |-> new_comment.user_id,
                   comment_body |-> new_comment.comment_body]
       IN  IF ~CommentFkOk(new_comment) \/ Exhausted("comments")
           THEN /\ InsertFailed(c, "create_comment", new_comment,
                                IF ~CommentFkOk(new_comment) THEN "ForeignKeyViolation"
                                ELSE "DatabaseError")
                /\ UNCHANGED <<comments, autoInc>>
           ELSE /\ comments' = comments \cup {row}
                /\ autoInc' = [autoInc EXCEPT !["comments"] = @ + 1]
                /\ pc' = [pc EXCEPT ![c] = "fetch"]
                /\ call' = [MarkDirty(c, "comments") EXCEPT ![c] =
                                Pending("create_comment", new_comment, row.comment_id)]
                /\ last' = Inserted(c, "create_comment")
    /\ UNCHANGED <<users, posts>>

create_comment_fetch(c) ==
    /\ pc[c] = "fetch"
    /\ call[c].op = "create_comment"
    /\ pc' = [pc EXCEPT ![c] = "idle"]
    /\ call' = IF comments = {}
               THEN [call EXCEPT ![c] = None]
               ELSE [MarkSeen(c, "comments", FirstCommentDesc.comment_id) EXCEPT ![c] = None]
    /\ last' = IF comments = {}
               THEN FetchErr(c, "Err", "NotFound")
               ELSE FetchOk(c, FirstCommentDesc, FirstCommentDesc.comment_id)
    /\ UNCHANGED <<users, posts, comments, autoInc>>

----------------------------------------------------------------------------
(* delete_comment *)

delete_comment(c, id) ==
    /\ pc[c] = "idle"
    /\ LET prev == Prev("create_comment", "delete_comment", id)
           found == FindComment(id)
           affected_rows == Cardinality(found)
       IN  /\ comments' = comments \ found
           /\ call' = IF found = {} THEN call ELSE MarkDirty(c, "comments")
           /\ last' = DeleteOk(c, "delete_comment", id, affected_rows, prev)
    /\ UNCHANGED <<users, posts, autoInc, pc>>

----------------------------------------------------------------------------
(* A create that stops between its two statements: the caller crashes, or  *)
(* the connection fails under the select. The two statements are not in a  *)
(* transaction, so nothing undoes the insert.                              *)

\* A create whose two statements are one transaction: stopping undoes the
\* insert.
AbortRollback(c, how) ==
    /\ pc[c] = "fetch"
    /\ pc' = [pc EXCEPT ![c] = "idle"]
    /\ call' = [call EXCEPT ![c] = None]
    /\ last' = FetchErr(c, how, "ConnectionLost")
    /\ users' = IF call[c].op = "create_user"
                THEN users \ FindUser(call[c].id) ELSE users
    /\ posts' = IF call[c].op = "create_post"
                THEN posts \ FindPost(call[c].id) ELSE posts
    /\ comments' = IF call[c].op = "create_comment"
                   THEN comments \ FindComment(call[c].id) ELSE comments
    /\ UNCHANGED autoInc

Abort(c, how) ==
    /\ pc[c] = "fetch"
    /\ pc' = [pc EXCEPT ![c] = "idle"]
    /\ call' = [call EXCEPT ![c] = None]
    /\ last' = FetchErr(c, how, "ConnectionLost")
    /\ UNCHANGED <<users, posts, comments, autoInc>>

----------------------------------------------------------------------------

Step(c) ==
    \/ \E name \in Names, email \in Emails, password_hash \in Hashes :
          create_user_insert(c, name, email, password_hash)
    \/ create_user_fetch(c)
    \/ \E user_id \in IdArgs : delete_user(c, user_id)
    \/ \E title \in Titles, body \in Bodies, is_published \in Published,
          user_id \in IdArgs :
          create_post_insert(c, title, body, is_published, user_id)
    \/ create_post_fetch(c)
    \/ \E post_id \in IdArgs : delete_post(c, post_id)
    \/ \E user_id \in IdArgs, post_id \in IdArgs, body \in CommentBodies :
          create_comment_insert(c, user_id, post_id, body)
    \/ create_comment_fetch(c)
    \/ \E id \in IdArgs : delete_comment(c, id)
    \/ \E how \in {"Crash", "Err"} : Abort(c, how)

\* The histories, read off the statement just executed.
DeltaNext ==
    (IF users' # users THEN {"users"} ELSE {})
    \cup (IF posts' # posts THEN {"posts"} ELSE {})
    \cup (IF comments' # comments THEN {"comments"} ELSE {})

AssignedNext ==
    IF last'.kind = "Inserted"
    THEN [assigned EXCEPT ![TableOf(last'.op)] =
             Append(@, call'[last'.conn].id)]
    ELSE assigned

RacedNext ==
    IF last'.kind = "Ok" /\ last'.op \in Creates /\ last'.id > last'.own
    THEN raced \cup {TableOf(last'.op)}
    ELSE raced

\* The round trip: creates on one table, one after the other, then deletes
\* of the returned ids, last created first. base is the table's id set
\* before the first create, stack the returned ids not yet deleted, n the
\* number of deletes so far, ok whether each of them returned 1.
Range(q) == {q[i] : i \in 1..Len(q)}

RtNext ==
    LET t == TableOf(last'.op)
        going == rt.phase # "off" /\ rt.t = t
    IN  IF last'.op \in Creates
        THEN IF last'.kind = "Inserted"
             THEN IF going /\ rt.phase = "create"
                  THEN rt
                  ELSE [phase |-> "create", t |-> t, base |-> IdsOf(t),
                        stack |-> <<>>, n |-> 0, ok |-> TRUE]
             ELSE IF last'.kind = "Ok" /\ going /\ rt.phase = "create"
                  THEN [rt EXCEPT !.stack = Append(@, last'.id)]
                  ELSE RtOff
        ELSE IF going /\ rt.stack # <<>> /\ last'.id = rt.stack[Len(rt.stack)]
             THEN [rt EXCEPT !.phase = "delete",
                             !.stack = SubSeq(@, 1, Len(@) - 1),
                             !.n = @ + 1,
                             !.ok = @ /\ last'.kind = "Ok" /\ last'.count = 1]
             ELSE RtOff

Next ==
    /\ \E c \in Conns : Step(c)
    /\ delta' = DeltaNext
    /\ assigned' = AssignedNext
    /\ UNCHANGED <<raced, rt>>

Spec == Init /\ [][Next]_vars

\* The same system, recording on which tables a create returned a row
\* that another connection inserted.
RaceNext ==
    /\ \E c \in Conns : Step(c)
    /\ delta' = DeltaNext
    /\ delta' = DeltaNext
    /\ raced' = RacedNext
    /\ UNCHANGED <<assigned, rt>>

RaceSpec == Init /\ [][RaceNext]_vars

\* One caller on one connection: the calls run one after the other.
SeqNext ==
    /\ Step("c1")
    /\ delta' = DeltaNext
    /\ assigned' = AssignedNext
    /\ UNCHANGED <<raced, rt>>

SeqSpec == Init /\ [][SeqNext]_vars

\* One caller on one connection, recording the round trips it makes.
RtSeqNext ==
    /\ Step("c1")
    /\ delta' = DeltaNext
    /\ delta' = DeltaNext
    /\ rt' = RtNext
    /\ UNCHANGED <<assigned, raced>>

RtSpec == Init /\ [][RtSeqNext]_vars

----------------------------------------------------------------------------
(* Properties *)

UserRow(id, new_user) ==
    [user_id |-> id, name |-> new_user.name, email |-> new_user.email,
     password_hash |-> new_user.password_hash]

\* C1: a create_user that no other connection's write to users fell into
\* returns the row it inserted: the returned user_id is the id the store
\* gave its insert, and looking that id up in users yields exactly one row,
\* whose name, email and password_hash are the three arguments.
C1_CreateUserReturnsItsRow ==
    (last.op = "create_user" /\ last.kind = "Ok" /\ ~last.dirty) =>
        /\ last.id = last.own
        /\ last.got = UserRow(last.id, last.new)
        /\ FindUser(last.id) = {UserRow(last.id, last.new)}

\* C1 witness: such a create_user returned row 2 while row 1, which had the
\* largest id when it was deleted, is gone.
C1_Witness ==
    /\ last.op = "create_user" /\ last.kind = "Ok" /\ ~last.dirty
    /\ last.id = 2
    /\ UserIds = {2}

\* C6: a create_comment for an existing user and post that no other
\* connection's write to comments fell into returns a Comment with the
\* user_id, post_id and comment_body it was given, under an id greater than
\* every id the store assigned to a comment before, deleted or not.
C6_CreateCommentEchoesAndIdGrows ==
    (last.op = "create_comment" /\ last.kind = "Ok" /\ ~last.dirty) =>
        LET a == assigned["comments"]
        IN  /\ last.got.user_id = last.new.user_id
            /\ last.got.post_id = last.new.post_id
            /\ last.got.comment_body = last.new.comment_body
            /\ last.got \in comments
            /\ a # <<>>
            /\ a[Len(a)] = last.got.comment_id
            /\ \A i \in 1..(Len(a) - 1) : a[i] < last.got.comment_id

\* C6 witness: comment 2 is returned after comment 1 was created and deleted.
C6_Witness ==
    /\ last.op = "create_comment" /\ last.kind = "Ok" /\ ~last.dirty
    /\ last.got.comment_id = 2
    /\ CommentIds = {2}
    /\ assigned["comments"] = <<1, 2>>

\* C7: referential integrity: every post names an existing user, every
\* comment an existing post and an existing user.
C7_ReferentialIntegrity ==
    /\ \A p \in posts : p.user_id \in UserIds
    /\ \A k \in comments : k.post_id \in PostIds /\ k.user_id \in UserIds

\* C7 witness: delete_user or delete_post was called on a row that a post
\* or a comment names, and the tables hold users, posts and comments.
C7_Witness ==
    /\ last.op \in {"delete_user", "delete_post"}
    /\ last.kind = "Err"
    /\ last.id \in IdsOf(TableOf(last.op))
    /\ posts # {} /\ comments # {}

CallRowPresent ==
    CASE last.op = "create_user" -> last.own \in UserIds
      [] last.op = "create_post" -> last.own \in PostIds
      [] last.op = "create_comment" -> last.own \in CommentIds
      [] OTHER -> FALSE

\* C10: a create that stopped after its insert and before its select
\* returned a row (a crash, or the select failing) leaves the inserted row
\* in the table, unless another connection has deleted it meanwhile.
C10_InsertStaysAfterAbort ==
    (last.op \in Creates /\ last.stage = "fetch" /\ last.kind \in {"Crash", "Err"}
        /\ ~last.dirty) => CallRowPresent

\* C10 witness: the call stopped, its row is in the table, and no create
\* call has returned that row to anyone.
C10_Witness ==
    /\ last.op \in Creates /\ last.stage = "fetch"
    /\ last.kind \in {"Crash", "Err"}
    /\ last.err = "ConnectionLost"
    /\ CallRowPresent
    /\ ~last.seen

\* C2: whenever the select of a create runs while the table holds a row
\* with a larger id than the one the call inserted (a row that another
\* connection inserted after it: this connection has been inside the call
\* since), the call returns that other row, not its own. This is so for
\* create_user, create_post and create_comment alike.
C2_OvertakenCreateReturnsOtherRow ==
    /\ raced \subseteq Tables
    /\ (last.op \in Creates /\ last.kind = "Ok"
           /\ \E i \in IdsOf(TableOf(last.op)) : i > last.own) =>
          /\ last.id > last.own
          /\ last.id = Max(IdsOf(TableOf(last.op)))
          /\ last.dirty

\* C2 witness: a create has returned another connection's row on each of
\* the three tables, the last of them just now.
C2_Witness ==
    /\ raced = Tables
    /\ last.op = "create_comment" /\ last.kind = "Ok"
    /\ last.id > last.own
    /\ last.got.comment_id # last.own

\* C3: delete_user on the id that the create_user executed just before it
\* returned gives row count 1, and no users row has that id afterwards.
C3_DeleteOfJustCreatedUser ==
    (last.op = "delete_user" /\ last.prev = "created") =>
        /\ last.kind = "Ok"
        /\ last.count = 1
        /\ last.id \notin UserIds

\* C3 witness: that delete has run, with another user, a post and a comment
\* in the tables.
C3_Witness ==
    /\ last.op = "delete_user" /\ last.prev = "created"
    /\ last.kind = "Ok" /\ last.count = 1
    /\ users # {} /\ posts # {} /\ comments # {}

\* C4: a delete_user, delete_post or delete_comment of an id that no row of
\* its table has returns Ok(0) and changes none of the three tables; a
\* delete of the id that the delete just before it removed returns Ok(0).
C4_DeleteOfAbsentIdIsZero ==
    /\ (last.op \in Deletes /\ ~last.present) =>
          (last.kind = "Ok" /\ last.count = 0 /\ delta = {})
    /\ (last.op \in Deletes /\ last.prev = "deleted") =>
          (last.kind = "Ok" /\ last.count = 0 /\ delta = {})

\* C4 witness: the same post id was deleted twice in a row, which returned 1
\* and then 0.
C4_Witness ==
    /\ last.op = "delete_post" /\ last.prev = "deleted" /\ ~last.present
    /\ last.kind = "Ok" /\ last.count = 0
    /\ last.id \notin PostIds
    /\ users # {}

\* The insert-model of the insert statement executed last.
InsertArgs == IF last.kind = "Err" THEN last.new ELSE call[last.conn].new

\* C5: create_post with a user_id that no users row has returns the foreign
\* key error from its insert and ends there: no select runs, no Post is
\* returned, and posts (as every table) is unchanged.
C5_CreatePostOfMissingUserFails ==
    (last.op = "create_post" /\ last.stage = "insert"
        /\ InsertArgs.user_id \notin UserIds) =>
        /\ last.kind = "Err"
        /\ last.err = "ForeignKeyViolation"
        /\ pc[last.conn] = "idle"
        /\ delta = {}

\* C5 witness: create_post was refused while posts holds a row that a select
\* would have found.
C5_Witness ==
    /\ last.op = "create_post" /\ last.stage = "insert"
    /\ last.kind = "Err" /\ last.err = "ForeignKeyViolation"
    /\ last.new.user_id \notin UserIds
    /\ pc[last.conn] = "idle"
    /\ posts # {}

\* C8: round trip on any of the three tables: while the caller creates rows
\* one after the other and then deletes the returned ids, last created
\* first, every delete returns 1 and the table's id set is the set it
\* started from plus the returned ids not yet deleted; after the last
\* delete it is the set it started from.
C8_RoundTrip ==
    (rt.phase # "off" /\ pc["c1"] = "idle") =>
        /\ rt.ok
        /\ IdsOf(rt.t) = rt.base \cup Range(rt.stack)
        /\ rt.base \cap Range(rt.stack) = {}

\* C8 witness: two comments were created and both deleted again, the second
\* one first.
C8_Witness ==
    /\ rt.phase = "delete" /\ rt.t = "comments"
    /\ rt.n = 2 /\ rt.stack = <<>>
    /\ rt.ok
    /\ CommentIds = rt.base

\* C9, as claimed: a create whose insert returned an error goes on to its
\* select.
C9_SelectAfterFailedInsert ==
    (last.op \in Creates /\ last.stage = "insert" /\ last.kind = "Err") =>
        pc[last.conn] = "fetch"

\* C9, amended: a create goes on to its select exactly when its insert
\* succeeded; when the insert returned an error the call has ended with it.
C9_SelectOnlyAfterInsert ==
    /\ (last.op \in Creates /\ last.stage = "insert") =>
          /\ (last.kind = "Inserted") <=> (pc[last.conn] = "fetch")
          /\ (last.kind = "Err") <=> (pc[last.conn] = "idle")
    /\ \A c \in Conns :
          pc[c] = "fetch" =>
              call[c].id \in Range(assigned[TableOf(call[c].op)])

\* C9 witness: an insert into users returned an error while users holds a
\* row that a select would have found, and the call has ended.
C9_Witness ==
    /\ last.op = "create_user" /\ last.stage = "insert" /\ last.kind = "Err"
    /\ pc[last.conn] = "idle"
    /\ users # {}

====
